---- MODULE Spec2Model ----
(***************************************************************************)
(* Model of the Meteor bundle parser of meteor-vite                        *)
(* (npm-packages/meteor-vite/src/meteor/package/Parser.ts).                *)
(*                                                                         *)
(* parseMeteorPackage parses a compiled Meteor package bundle with Babel,  *)
(* traverses the tree once and, on every node it enters, runs three        *)
(* recognizers (parsePackageScope, parseMeteorInstall, readMainModulePath) *)
(* whose results are merged into one accumulator.  The model keeps Babel's *)
(* node shapes as records with a "type" field, the recognizers as          *)
(* operators computed the way the code computes them (a thrown exception   *)
(* is a completion record of kind "throw"), and the traversal, the         *)
(* promise rejection handler and the final validation as actions.          *)
(***************************************************************************)
EXTENDS Integers, Sequences, FiniteSets, TLC

(***************************************************************************)
(* Bounds of the model.                                                    *)
(***************************************************************************)
\* Nodes entered by one traversal (driver programs).
MaxNodes == 2
\* Properties of the object literal of one export / link call.
MaxProps == 2
\* Statements of one module body (multi-statement bodies).
MaxStmts == 2
\* Entries of one directory object of the module tree.
MaxEntries == 2
\* Directory levels below the package object.
MaxDepth == 2

(***************************************************************************)
(* Babel nodes.  A field a node type does not have is absent from the      *)
(* record; reading it yields JavaScript's undefined.                       *)
(***************************************************************************)
Undefined == [type |-> "<undefined>"]
IsDefined(x) == x.type # "<undefined>"
Has(node, f) == IsDefined(node) /\ f \in DOMAIN node

Identifier(n) == [type |-> "Identifier", name |-> n]
StringLiteral(v) == [type |-> "StringLiteral", value |-> v]
NumericLiteral(v) == [type |-> "NumericLiteral", value |-> v]
ObjectExpression(props) == [type |-> "ObjectExpression", properties |-> props]
ObjectProperty(k, v) == [type |-> "ObjectProperty", key |-> k, value |-> v]
\* { [k]: v }: Babel marks the property computed and keeps k as its key.
ComputedProperty(k, v) == [type |-> "ObjectProperty", key |-> k, value |-> v, computed |-> TRUE]
BlockStatement(stmts) == [type |-> "BlockStatement", body |-> stmts]
\* { key(v) { ... } }: a method, getter or setter of an object literal.
ObjectMethod(k) ==
    [type |-> "ObjectMethod", key |-> k, params |-> <<Identifier("v")>>,
     body |-> BlockStatement(<<>>)]
SpreadElement(arg) == [type |-> "SpreadElement", argument |-> arg]
FunctionExpression(stmts) ==
    [type |-> "FunctionExpression", params |-> <<>>, body |-> BlockStatement(stmts)]
\* () => expr: the body is an expression, not a block.
ArrowFunctionExpression(expr) ==
    [type |-> "ArrowFunctionExpression", params |-> <<>>, body |-> expr,
     expression |-> TRUE]
\* class { }: its body is a ClassBody holding the list of members.
ClassExpression(members) ==
    [type |-> "ClassExpression", body |-> [type |-> "ClassBody", body |-> members]]
MemberExpression(obj, prop) ==
    [type |-> "MemberExpression", object |-> obj, property |-> prop]
CallExpression(callee, args) ==
    [type |-> "CallExpression", callee |-> callee, arguments |-> args]
UnaryExpression(op, arg) ==
    [type |-> "UnaryExpression", operator |-> op, argument |-> arg]
ExpressionStatement(e) == [type |-> "ExpressionStatement", expression |-> e]
VariableDeclarator(id, init) == [type |-> "VariableDeclarator", id |-> id, init |-> init]
VariableDeclaration(decls) == [type |-> "VariableDeclaration", declarations |-> decls]

\* node.arguments[i - 1] of the code (sequences are 1-based here).
Arg(node, i) == IF i <= Len(node.arguments) THEN node.arguments[i] ELSE Undefined
\* properties[0] of an object literal.
FirstProperty(props) == IF Len(props) >= 1 THEN props[1] ELSE Undefined

(***************************************************************************)
(* Completion of a call: a returned value, a return of undefined, or a     *)
(* thrown error.                                                           *)
(***************************************************************************)
Return(v) == [kind |-> "return", value |-> v]
ReturnUndefined == [kind |-> "undefined"]
Throw(e) == [kind |-> "throw", error |-> e]

\* class ModuleExportsError extends ParserError, with the offending node.
ModuleExportsError(message, node) ==
    [class |-> "ModuleExportsError", message |-> message, node |-> node]
\* class ParserError extends Error.
ParserError(message) == [class |-> "ParserError", message |-> message]
\* What JavaScript raises when a property of undefined is read.
TypeError == [class |-> "TypeError", message |-> "Cannot read properties of undefined"]
\* The free identifier `exports` passed as the node at Parser.ts:215: the
\* CommonJS exports object of the parser's own module, not a tree node.
ExportsBinding == [type |-> "<exports of Parser module>"]

(***************************************************************************)
(* Number.prototype.toString and the /^module\d*$/ test.                   *)
(***************************************************************************)
Digits == <<"0", "1", "2", "3", "4", "5", "6", "7", "8", "9">>
RECURSIVE NumberToString(_)
NumberToString(n) ==
    IF n < 10 THEN Digits[n + 1]
    ELSE NumberToString(n \div 10) \o Digits[(n % 10) + 1]

\* name.match(/^module\d*$/)
MatchesModuleBinding(name) ==
    /\ Len(name) >= 6
    /\ SubSeq(name, 1, 6) = "module"
    /\ \A i \in 7..Len(name) :
          \E d \in 1..10 : SubSeq(name, i, i) = Digits[d]

(***************************************************************************)
(* propParser.getKey                                                       *)
(***************************************************************************)
getKey(property) ==
    IF property.key.type = "Identifier" THEN Return(property.key.name)
    ELSE IF property.key.type = "StringLiteral" THEN Return(property.key.value)
    ELSE Throw(ModuleExportsError("Unsupported property key type!", property))

(***************************************************************************)
(* formatExports: one record per property of the object literal, in order. *)
(* packageName and id are Undefined for module.export().                   *)
(***************************************************************************)
\* { name, type: 'export', ...id && { id: id.value } }
exportRecord(name, id) ==
    IF IsDefined(id)
    THEN [name |-> name, type |-> "export", id |-> id.value]
    ELSE [name |-> name, type |-> "export"]

\* Variant of linkedRecord that marks every record as a re-export, whether
\* or not a package name was given.
linkedRecordAlways(result, packageName) == [type |-> "re-export"] @@ result

\* if (packageName) { result.type = 're-export'; result.from = packageName.value }
linkedRecord(result, packageName) ==
    IF IsDefined(packageName)
    THEN [type |-> "re-export", from |-> packageName.value] @@ result
    ELSE result

\* Variant of bindingRecord that never reclassifies a record.
bindingRecordNever(result, property) == result

\* if (result.type === 're-export' && property.type === 'ObjectMethod')
bindingRecord(result, property) ==
    IF result.type = "re-export" /\ property.type = "ObjectMethod"
    THEN [type |-> "global-binding"] @@ result
    ELSE result

\* Variant of aliasedRecord that sets `as` even when it equals the name.
aliasedRecordAlways(result, content) == result @@ [as |-> content.value]

\* if (content.value !== result.name) { result.as = content.value }
aliasedRecord(result, content) ==
    IF content.value # result.name
    THEN result @@ [as |-> content.value]
    ELSE result

formatProperty(property, packageName, id) ==
    IF property.type = "SpreadElement"
    THEN Throw(ModuleExportsError("Unexpected property type!", property))
    ELSE
    LET key == getKey(property) IN
    IF key.kind = "throw" THEN key
    ELSE
    LET result == bindingRecord(
                      linkedRecord(exportRecord(key.value, id), packageName), property)
    IN
    IF result.type = "re-export" /\ property.type = "ObjectProperty"
    THEN IF property.value.type # "StringLiteral"
         THEN Throw(ModuleExportsError(
                  "Received unsupported result type in re-export!", property))
         ELSE Return(aliasedRecord(result, property.value))
    ELSE Return(result)

RECURSIVE formatExportsFrom(_, _, _, _)
formatExportsFrom(properties, i, packageName, id) ==
    IF i > Len(properties) THEN Return(<<>>)
    ELSE LET one == formatProperty(properties[i], packageName, id) IN
         IF one.kind = "throw" THEN one
         ELSE LET rest == formatExportsFrom(properties, i + 1, packageName, id) IN
              IF rest.kind = "throw" THEN rest
              ELSE Return(<<one.value>> \o rest.value)

formatExports(expression, packageName, id) ==
    formatExportsFrom(expression.properties, 1, packageName, id)

(***************************************************************************)
(* readModuleExports / handleMainModule: the records of one statement of   *)
(* a module body.  collectExports is the forEach loop both the leaf        *)
(* traversal and the main-module wrapper run over a list of statements.    *)
(***************************************************************************)
RECURSIVE readModuleExports(_)
RECURSIVE handleMainModule(_)
RECURSIVE collectExports(_, _)

\* Variant of pushExports that puts a statement's records after those of
\* the statements that follow it.
pushExportsBehind(exports, later) == later \o exports

\* exportList.push(...exports), seen from the statement: its records, then
\* those of the statements after it.
pushExports(exports, later) == exports \o later

\* Variant of collectExports that ends the loop at the first statement the
\* recognizer returns nothing for.
collectExportsStopAtUnknown(statements, i) ==
    IF i > Len(statements) THEN Return(<<>>)
    ELSE LET exports == readModuleExports(statements[i]) IN
         IF exports.kind = "throw" THEN exports
         ELSE IF exports.kind = "undefined" THEN Return(<<>>)
         ELSE LET rest == collectExports(statements, i + 1) IN
              IF rest.kind = "throw" THEN rest
              ELSE Return(pushExports(exports.value, rest.value))

collectExports(statements, i) ==
    IF i > Len(statements) THEN Return(<<>>)
    ELSE LET exports == readModuleExports(statements[i]) IN
         IF exports.kind = "throw" THEN exports
         ELSE LET rest == collectExports(statements, i + 1) IN
              IF rest.kind = "throw" THEN rest
              ELSE IF exports.kind = "undefined" THEN rest
              ELSE Return(pushExports(exports.value, rest.value))

\* Variant of handleMainModule that stops after the first statement of the
\* wrapped body.
handleMainModuleFirstOnly(statement) ==
    LET expression == statement.expression IN
    IF expression.type # "UnaryExpression" THEN ReturnUndefined
    ELSE IF expression.operator # "!" THEN ReturnUndefined
    ELSE IF expression.argument.type # "CallExpression" THEN ReturnUndefined
    ELSE LET callee == expression.argument.callee IN
         IF callee.type # "MemberExpression" THEN ReturnUndefined
         ELSE IF callee.object.type # "FunctionExpression" THEN ReturnUndefined
         ELSE IF Len(callee.object.body.body) = 0 THEN Return(<<>>)
         ELSE collectExports(<<callee.object.body.body[1]>>, 1)

handleMainModule(statement) ==
    LET expression == statement.expression IN
    IF expression.type # "UnaryExpression" THEN ReturnUndefined
    ELSE IF expression.operator # "!" THEN ReturnUndefined
    ELSE IF expression.argument.type # "CallExpression" THEN ReturnUndefined
    ELSE LET callee == expression.argument.callee IN
         IF callee.type # "MemberExpression" THEN ReturnUndefined
         ELSE IF callee.object.type # "FunctionExpression" THEN ReturnUndefined
         ELSE collectExports(callee.object.body.body, 1)

readModuleExports(node) ==
    IF node.type # "ExpressionStatement" THEN ReturnUndefined
    ELSE IF node.expression.type = "UnaryExpression" THEN handleMainModule(node)
    ELSE IF node.expression.type # "CallExpression" THEN ReturnUndefined
    ELSE
    LET callee == node.expression.callee
        arg0 == Arg(node.expression, 1)
        arg1 == Arg(node.expression, 2)
        arg2 == Arg(node.expression, 3)
    IN
    IF callee.type # "MemberExpression" THEN ReturnUndefined
    ELSE IF callee.object.type # "Identifier" THEN ReturnUndefined
    ELSE IF ~MatchesModuleBinding(callee.object.name) THEN ReturnUndefined
    ELSE IF callee.property.type # "Identifier" THEN ReturnUndefined
    ELSE
    LET methodName == callee.property.name IN
    IF methodName = "exportDefault"
    THEN IF ~IsDefined(arg0) THEN Throw(TypeError)
         ELSE IF arg0.type # "Identifier"
         THEN Throw(ModuleExportsError("Unexpected default export value!", arg0))
         ELSE Return(<<[type |-> "export-default", name |-> arg0.name]>>)
    ELSE IF methodName = "export"
    THEN IF ~IsDefined(arg0) THEN Throw(TypeError)
         ELSE IF arg0.type # "ObjectExpression"
         THEN Throw(ModuleExportsError("Unexpected export type!", ExportsBinding))
         ELSE formatExports(arg0, Undefined, Undefined)
    ELSE IF methodName # "link" THEN ReturnUndefined
    ELSE IF ~IsDefined(arg0) THEN Throw(TypeError)
    ELSE IF arg0.type # "StringLiteral"
    THEN Throw(ModuleExportsError(
             "Expected string as the first argument in module.link()!", arg0))
    ELSE IF ~IsDefined(arg1) THEN Throw(TypeError)
    ELSE IF arg1.type # "ObjectExpression"
    THEN Throw(ModuleExportsError(
             "Expected ObjectExpression as the second argument in module.link()!", arg0))
    ELSE IF ~IsDefined(arg2) THEN Throw(TypeError)
    ELSE IF arg2.type # "NumericLiteral"
    THEN Throw(ModuleExportsError(
             "Expected NumericLiteral as the last argument in module.link()!", arg0))
    ELSE formatExports(arg1, arg0, arg2)

(***************************************************************************)
(* parseMeteorInstall.  traverseModules walks the properties of a          *)
(* directory object in order; `modules` is the map built so far.           *)
(***************************************************************************)
\* The empty object {} as a map from keys to values.
EmptyObject == [k \in {} |-> <<>>]

\* JavaScript's undefined where a string is expected (no string literal of
\* the model spells it).
UndefinedValue == "<undefined>"

\* property.key.value.toString()
KeyToString(key) ==
    IF key.type = "NumericLiteral" THEN NumberToString(key.value) ELSE key.value

\* const path = `${parentPath}${property.key.value.toString()}`
leafPath(parentPath, key) == parentPath \o KeyToString(key)

\* Variant of directoryPrefix that drops the separator.
directoryPrefixNoSlash(path) == path

\* `${path}/`, the parentPath of a directory's entries
directoryPrefix(path) == path \o "/"

\* modules[path] = exportList
assignModule(modules, path, exportList) == (path :> exportList) @@ modules

RECURSIVE traverseModulesFrom(_, _, _, _)
traverseModulesFrom(properties, i, parentPath, modules) ==
    IF i > Len(properties) THEN Return(modules)
    ELSE
    LET property == properties[i] IN
    IF ~Has(property, "key") \/ ~Has(property.key, "value") THEN Throw(TypeError)
    ELSE
    LET path == leafPath(parentPath, property.key) IN
    IF ~Has(property, "value") THEN Throw(TypeError)
    ELSE IF property.value.type = "ObjectExpression"
    THEN LET sub == traverseModulesFrom(property.value.properties, 1,
                                        directoryPrefix(path), modules) IN
         IF sub.kind = "throw" THEN sub
         ELSE traverseModulesFrom(properties, i + 1, parentPath, sub.value)
    ELSE IF ~Has(property.value, "body") \/ ~Has(property.value.body, "body")
    THEN Throw(TypeError)
    ELSE LET exportList == collectExports(property.value.body.body, 1) IN
         IF exportList.kind = "throw" THEN exportList
         ELSE traverseModulesFrom(properties, i + 1, parentPath,
                                  assignModule(modules, path, exportList.value))

traverseModules(properties, parentPath) ==
    traverseModulesFrom(properties, 1, parentPath, EmptyObject)

parseMeteorInstall(node) ==
    IF node.type # "CallExpression" THEN ReturnUndefined
    ELSE IF ~(node.callee.type = "Identifier" /\ node.callee.name = "meteorInstall")
    THEN ReturnUndefined
    ELSE
    LET packageConfig == Arg(node, 1) IN
    IF ~Has(packageConfig, "properties") THEN Throw(TypeError)
    ELSE
    LET node_modules == FirstProperty(packageConfig.properties) IN
    IF ~Has(node_modules, "value") \/ ~Has(node_modules.value, "properties")
    THEN Throw(TypeError)
    ELSE
    LET meteor == FirstProperty(node_modules.value.properties) IN
    IF ~Has(meteor, "value") \/ ~Has(meteor.value, "properties")
    THEN Throw(TypeError)
    ELSE
    LET packageName == FirstProperty(meteor.value.properties) IN
    IF ~Has(packageName, "value") THEN Throw(TypeError)
    ELSE IF ~Has(packageName.value, "properties") THEN Throw(TypeError)
    ELSE
    LET modules == traverseModules(packageName.value.properties, "") IN
    IF modules.kind = "throw" THEN modules
    ELSE Return([name |-> IF Has(packageName.key, "value")
                          THEN packageName.key.value ELSE UndefinedValue,
                 modules |-> modules.value])

(***************************************************************************)
(* parsePackageScope: Package._define(name, moduleExports, packageExports) *)
(***************************************************************************)
RECURSIVE packageExportKeys(_, _)
packageExportKeys(properties, i) ==
    IF i > Len(properties) THEN Return(<<>>)
    ELSE IF properties[i].type = "SpreadElement"
    THEN Throw(ModuleExportsError(
             "Unexpected property type received for package-scope exports!",
             properties[i]))
    ELSE LET key == getKey(properties[i]) IN
         IF key.kind = "throw" THEN key
         ELSE LET rest == packageExportKeys(properties, i + 1) IN
              IF rest.kind = "throw" THEN rest
              ELSE Return(<<key.value>> \o rest.value)

\* Variant of packageExportsArgument without the two-argument fallback.
packageExportsThird(node) == Arg(node, 3)

\* packageExports: the third argument, or the second when there is no third
\* and the second is an object literal (core packages without modules).
packageExportsArgument(node) ==
    IF ~IsDefined(Arg(node, 3)) /\ Arg(node, 2).type = "ObjectExpression"
    THEN Arg(node, 2) ELSE Arg(node, 3)

parsePackageScope(node) ==
    IF node.type # "CallExpression" THEN ReturnUndefined
    ELSE IF node.callee.type # "MemberExpression" THEN ReturnUndefined
    ELSE IF node.callee.object.type # "Identifier" THEN ReturnUndefined
    ELSE IF node.callee.object.name # "Package" THEN ReturnUndefined
    ELSE IF node.callee.property.type # "Identifier" THEN ReturnUndefined
    ELSE IF node.callee.property.name # "_define" THEN ReturnUndefined
    ELSE
    LET packageName == Arg(node, 1)
        packageExports == packageExportsArgument(node)
    IN
    IF ~IsDefined(packageExports) THEN ReturnUndefined
    ELSE IF packageExports.type # "ObjectExpression"
    THEN Throw(ModuleExportsError(
             "Unexpected type received for package-scope exports argument!",
             packageExports))
    ELSE IF packageName.type # "StringLiteral"
    THEN Throw(ModuleExportsError(
             "Unexpected type received for package name!", packageName))
    ELSE LET exports == packageExportKeys(packageExports.properties, 1) IN
         IF exports.kind = "throw" THEN exports
         ELSE Return([name |-> packageName.value, exports |-> exports.value])

(***************************************************************************)
(* readMainModulePath: var exports = require("<path>")                     *)
(***************************************************************************)
\* Variant of readMainModulePath that accepts any declared identifier.
readMainModulePathAnyId(node) ==
    IF node.type # "VariableDeclarator" THEN ReturnUndefined
    ELSE IF node.init.type # "CallExpression" THEN ReturnUndefined
    ELSE IF ~(node.init.callee.type = "Identifier" /\ node.init.callee.name = "require")
    THEN ReturnUndefined
    ELSE IF Arg(node.init, 1).type # "StringLiteral" THEN ReturnUndefined
    ELSE Return(Arg(node.init, 1).value)

readMainModulePath(node) ==
    IF node.type # "VariableDeclarator" THEN ReturnUndefined
    ELSE IF ~(node.id.type = "Identifier" /\ node.id.name = "exports")
    THEN ReturnUndefined
    ELSE IF node.init.type # "CallExpression" THEN ReturnUndefined
    ELSE IF ~(node.init.callee.type = "Identifier" /\ node.init.callee.name = "require")
    THEN ReturnUndefined
    ELSE IF Arg(node.init, 1).type # "StringLiteral" THEN ReturnUndefined
    ELSE Return(Arg(node.init, 1).value)

(***************************************************************************)
(* Inputs: the bundle texts the model runs the parser on, as the lists of  *)
(* nodes the traversal enters, in pre-order.  Nodes below the ones listed  *)
(* (identifiers, literals, the arguments of the calls) match no recognizer *)
(* and are left out.                                                       *)
(***************************************************************************)
\* All sequences over S of length lo..hi.
SeqsOf(S, lo, hi) == UNION {[1..n -> S] : n \in lo..hi}

\* <binding>.<method>(args);
ModuleCall(binding, method, args) ==
    ExpressionStatement(
        CallExpression(MemberExpression(Identifier(binding), Identifier(method)), args))

\* !function () { body }.call(this, module);
MainModuleWrapper(body) ==
    ExpressionStatement(UnaryExpression("!",
        CallExpression(MemberExpression(FunctionExpression(body), Identifier("call")),
                       <<Identifier("module")>>)))

\* Properties of the object literals of export / link calls.
PropertyUniverse ==
    { ObjectProperty(Identifier("Foo"), StringLiteral("Foo")),
      ObjectProperty(Identifier("Foo"), StringLiteral("Bar")),
      ObjectProperty(StringLiteral("*"), StringLiteral("*")),
      ObjectMethod(Identifier("Foo")),
      ObjectProperty(Identifier("Meteor"), FunctionExpression(<<>>)),
      ObjectProperty(Identifier("first"), ArrowFunctionExpression(Identifier("first"))),
      ObjectProperty(NumericLiteral(1), StringLiteral("one")),
      SpreadElement(Identifier("rest")) }

PropertyLists == SeqsOf(PropertyUniverse, 0, MaxProps)

\* module.export({...}) and module1.link("<path>", {...}, <id>) over every
\* property list.
ExportStatements ==
    {ModuleCall("module", "export", <<ObjectExpression(pl)>>) : pl \in PropertyLists}
LinkStatements ==
    {ModuleCall("module1", "link",
                <<StringLiteral("meteor/meteor"), ObjectExpression(pl), NumericLiteral(id)>>) :
        pl \in PropertyLists, id \in {0, 3}}

ExportFoo == ModuleCall("module", "export",
                 <<ObjectExpression(<<ObjectProperty(Identifier("Foo"), StringLiteral("Foo"))>>)>>)
ExportAB == ModuleCall("module12", "export",
                 <<ObjectExpression(<<
                     ObjectProperty(StringLiteral("a"), ArrowFunctionExpression(Identifier("a"))),
                     ObjectProperty(Identifier("b"), ArrowFunctionExpression(Identifier("b")))>>)>>)
ExportDefaultFn == ModuleCall("module", "exportDefault", <<Identifier("namedFunction")>>)
LinkReExport == ModuleCall("module1", "link",
                 <<StringLiteral("./relative-module"),
                   ObjectExpression(<<
                     ObjectProperty(Identifier("WhereAmI"), StringLiteral("WhereIsTheSubmodule")),
                     ObjectProperty(Identifier("NamedReExport"), StringLiteral("NamedReExport"))>>),
                   NumericLiteral(6)>>)
LinkGlobal == ModuleCall("module", "link",
                 <<StringLiteral("meteor/meteor"),
                   ObjectExpression(<<ObjectMethod(Identifier("Meteor"))>>),
                   NumericLiteral(3)>>)
Plumbing == VariableDeclaration(<<VariableDeclarator(Identifier("x"), NumericLiteral(1))>>)

\* The statements multi-statement bodies are made of.
CoreStatements ==
    {ExportFoo, ExportAB, ExportDefaultFn, LinkReExport, LinkGlobal, Plumbing}

CoreBodies == SeqsOf(CoreStatements, 0, MaxStmts)

\* Statements that look like, or nearly like, a module call or a wrapper.
ShapeStatements ==
    { ModuleCall("module", "exportDefault", <<StringLiteral("text")>>),
      ModuleCall("module", "exportDefault", <<>>),
      ModuleCall("module", "export", <<Identifier("Foo")>>),
      ModuleCall("module", "export", <<>>),
      ModuleCall("module", "link",
                 <<Identifier("path"), ObjectExpression(<<>>), NumericLiteral(0)>>),
      ModuleCall("module", "link",
                 <<StringLiteral("./a"), Identifier("bindings"), NumericLiteral(0)>>),
      ModuleCall("module", "link",
                 <<StringLiteral("./a"), ObjectExpression(<<>>), StringLiteral("0")>>),
      ModuleCall("module", "link", <<StringLiteral("./a"), ObjectExpression(<<>>)>>),
      ModuleCall("module", "watch", <<StringLiteral("./a")>>),
      ModuleCall("module", "export",
                 <<ObjectExpression(<<ComputedProperty(Identifier("Foo"), StringLiteral("Foo"))>>)>>),
      ModuleCall("module", "link",
                 <<StringLiteral("./a"),
                   ObjectExpression(<<ComputedProperty(Identifier("Foo"), StringLiteral("Foo"))>>),
                   NumericLiteral(0)>>),
      ModuleCall("module", "link",
                 <<StringLiteral("./a"),
                   ObjectExpression(<<ObjectProperty(Identifier("Foo"), Identifier("Foo"))>>),
                   NumericLiteral(0)>>),
      ModuleCall("modulex", "export",
                 <<ObjectExpression(<<ObjectProperty(Identifier("Foo"), StringLiteral("Foo"))>>)>>),
      ModuleCall("exports", "export",
                 <<ObjectExpression(<<ObjectProperty(Identifier("Foo"), StringLiteral("Foo"))>>)>>),
      ExpressionStatement(CallExpression(
          MemberExpression(Identifier("module"), StringLiteral("export")),
          <<ObjectExpression(<<ObjectProperty(Identifier("Foo"), StringLiteral("Foo"))>>)>>)),
      ExpressionStatement(CallExpression(Identifier("require"), <<StringLiteral("./a")>>)),
      ExpressionStatement(Identifier("x")),
      ExpressionStatement(UnaryExpression("-",
          CallExpression(MemberExpression(FunctionExpression(<<ExportFoo>>), Identifier("call")),
                         <<>>))),
      ExpressionStatement(UnaryExpression("!", Identifier("x"))),
      ExpressionStatement(UnaryExpression("!",
          CallExpression(FunctionExpression(<<ExportFoo, ExportDefaultFn>>), <<>>))),
      ExpressionStatement(UnaryExpression("!",
          CallExpression(Identifier("run"), <<>>))),
      ExpressionStatement(UnaryExpression("!",
          CallExpression(MemberExpression(Identifier("fn"), Identifier("call")), <<>>))),
      MainModuleWrapper(<<MainModuleWrapper(<<ExportFoo, LinkGlobal>>), ExportDefaultFn>>) }

WrapperStatements == {MainModuleWrapper(b) : b \in CoreBodies}

\* Module bodies: every single statement, and the multi-statement bodies.
Bodies ==
    {<<s>> : s \in ExportStatements \cup LinkStatements \cup ShapeStatements
                     \cup WrapperStatements}
    \cup CoreBodies

\* "<key>": function module(require, exports, module) { body }
Leaf(key, body) == ObjectProperty(StringLiteral(key), FunctionExpression(body))
\* "<key>": { entries }
Directory(key, entries) == ObjectProperty(StringLiteral(key), ObjectExpression(entries))

\* meteorInstall({"node_modules": {"meteor": {"<name>": { entries }}}})
Installer(name, entries) ==
    CallExpression(Identifier("meteorInstall"),
        <<ObjectExpression(<<ObjectProperty(StringLiteral("node_modules"),
            ObjectExpression(<<ObjectProperty(StringLiteral("meteor"),
                ObjectExpression(<<ObjectProperty(StringLiteral(name),
                    ObjectExpression(entries))>>))>>))>>)>>)

\* Module trees.  A directory holds up to MaxEntries leaves, or a
\* subdirectory alone, after a leaf or before a leaf.  "lib/a.js" as one key
\* and "a.js" inside "lib" spell the same path.
LeafEntries ==
    {Leaf(k, b) : k \in {"a.js", "lib/a.js"}, b \in {<<ExportFoo>>, <<ExportDefaultFn>>}}
SiblingLeaves == {Leaf(k, <<ExportAB>>) : k \in {"a.js", "lib/a.js"}}

RECURSIVE Trees(_)
Trees(depth) ==
    IF depth = 0 THEN SeqsOf(LeafEntries, 0, MaxEntries)
    ELSE LET below == Trees(depth - 1) IN
         below
         \cup {<<Directory("lib", t)>> : t \in below}
         \cup {<<l, Directory("lib", t)>> : l \in SiblingLeaves, t \in below}
         \cup {<<Directory("lib", t), l>> : l \in SiblingLeaves, t \in below}

\* One installer call with one leaf module, for every body.
ModulePrograms == {<<Installer("pkg:demo", <<Leaf("index.js", b)>>)>> : b \in Bodies}
\* One installer call for every module tree.
TreePrograms == {<<Installer("test:ts-modules", t)>> : t \in Trees(MaxDepth)}

\* Package._define(args)
Define(args) ==
    CallExpression(MemberExpression(Identifier("Package"), Identifier("_define")), args)

KeysFooBar ==
    ObjectExpression(<<ObjectProperty(Identifier("Foo"), Identifier("Foo")),
                       ObjectProperty(StringLiteral("Bar"), Identifier("Bar"))>>)
KeysBaz == ObjectExpression(<<ObjectProperty(Identifier("Baz"), Identifier("Baz"))>>)

DemoLeaf == Leaf("index.js", <<ExportFoo>>)

\* The spec's end-to-end example: package "pkg:demo", one leaf index.js with
\* one .export({ Foo: "Foo" }).
DemoInstaller == Installer("pkg:demo", <<DemoLeaf>>)

\* Installer calls whose argument is not the three-level prefix, or whose
\* leaf is not a function.
WrongKeysInstaller ==
    CallExpression(Identifier("meteorInstall"),
        <<ObjectExpression(<<ObjectProperty(StringLiteral("modules"),
            ObjectExpression(<<ObjectProperty(StringLiteral("atmosphere"),
                ObjectExpression(<<ObjectProperty(StringLiteral("pkg:demo"),
                    ObjectExpression(<<DemoLeaf>>))>>))>>))>>)>>)
ExtraSiblingsInstaller ==
    CallExpression(Identifier("meteorInstall"),
        <<ObjectExpression(<<
            ObjectProperty(StringLiteral("node_modules"),
                ObjectExpression(<<
                    ObjectProperty(StringLiteral("meteor"),
                        ObjectExpression(<<
                            ObjectProperty(StringLiteral("pkg:demo"),
                                ObjectExpression(<<DemoLeaf>>)),
                            ObjectProperty(StringLiteral("second"),
                                ObjectExpression(<<Leaf("second.js", <<ExportAB>>)>>))>>)),
                    ObjectProperty(StringLiteral("npm"), ObjectExpression(<<>>))>>)),
            ObjectProperty(StringLiteral("extra"), ObjectExpression(<<>>))>>)>>)
NonObjectLevelInstaller ==
    CallExpression(Identifier("meteorInstall"),
        <<ObjectExpression(<<ObjectProperty(StringLiteral("node_modules"),
            StringLiteral("meteor"))>>)>>)
NoArgumentInstaller == CallExpression(Identifier("meteorInstall"), <<>>)
EmptyLevelInstaller ==
    CallExpression(Identifier("meteorInstall"),
        <<ObjectExpression(<<ObjectProperty(StringLiteral("node_modules"),
            ObjectExpression(<<>>))>>)>>)
StringLeafInstaller ==
    Installer("pkg:demo",
        <<DemoLeaf, ObjectProperty(StringLiteral("README.md"), StringLiteral("text"))>>)
ClassLeafInstaller ==
    Installer("pkg:demo",
        <<DemoLeaf, ObjectProperty(StringLiteral("model.js"), ClassExpression(<<>>))>>)
ArrowLeafInstaller ==
    Installer("pkg:demo",
        <<DemoLeaf, ObjectProperty(StringLiteral("fn.js"),
                                    ArrowFunctionExpression(Identifier("x")))>>)
\* {node_modules: {meteor: {pkg: {...}}}}: the package key is an identifier.
IdentifierNameInstaller ==
    CallExpression(Identifier("meteorInstall"),
        <<ObjectExpression(<<ObjectProperty(Identifier("node_modules"),
            ObjectExpression(<<ObjectProperty(Identifier("meteor"),
                ObjectExpression(<<ObjectProperty(Identifier("pkg"),
                    ObjectExpression(<<DemoLeaf>>))>>))>>))>>)>>)

MalformedInstallers ==
    { WrongKeysInstaller, ExtraSiblingsInstaller, NonObjectLevelInstaller,
      NoArgumentInstaller, EmptyLevelInstaller, StringLeafInstaller,
      ClassLeafInstaller, ArrowLeafInstaller, IdentifierNameInstaller }

\* The nodes of the driver programs.
DriverNodes ==
    { DemoInstaller,
      Installer("other", <<Leaf("main.js", <<ExportDefaultFn>>)>>),
      Installer("pkg:demo", <<>>) }
    \cup MalformedInstallers
    \cup { Define(<<StringLiteral("pkg:demo"), KeysFooBar>>),
           Define(<<StringLiteral("pkg:demo"), Identifier("exports"), KeysBaz>>),
           Define(<<StringLiteral("pkg:demo"), Identifier("exports"), Identifier("scope")>>),
           Define(<<StringLiteral("pkg:demo"), Identifier("exports")>>),
           Define(<<StringLiteral("pkg:demo")>>),
           Define(<<StringLiteral("meteor"), KeysBaz>>),
           Define(<<StringLiteral("meteor"), ObjectExpression(<<>>)>>),
           Define(<<Identifier("name"), KeysFooBar>>),
           Define(<<StringLiteral("pkg:demo"),
                    ObjectExpression(<<SpreadElement(Identifier("rest"))>>)>>),
           Define(<<StringLiteral("pkg:demo"),
                    ObjectExpression(<<ObjectProperty(NumericLiteral(1), Identifier("x"))>>)>>),
           CallExpression(MemberExpression(Identifier("Package"), Identifier("other")),
                          <<StringLiteral("pkg:demo"), KeysFooBar>>),
           CallExpression(Identifier("require"), <<StringLiteral("meteor/meteor")>>),
           VariableDeclarator(Identifier("exports"),
               CallExpression(Identifier("require"),
                   <<StringLiteral("/node_modules/meteor/pkg:demo/index.js")>>)),
           VariableDeclarator(Identifier("exports"),
               CallExpression(Identifier("require"), <<StringLiteral("")>>)),
           VariableDeclarator(Identifier("x"),
               CallExpression(Identifier("require"), <<StringLiteral("./x")>>)),
           Identifier("Package") }

DriverPrograms == SeqsOf(DriverNodes, 0, MaxNodes)

\* A bundle as Meteor builds it: everything sits in the package closure,
\*   (function () { var require = meteorInstall({...});
\*                  var exports = require("<main module>");
\*                  Package._define("pkg:demo", exports, {...}); })();
\* The nodes entered are the closure, then the nodes inside it.
TopDeclarator ==
    VariableDeclarator(Identifier("exports"),
        CallExpression(Identifier("require"),
            <<StringLiteral("/node_modules/meteor/pkg:demo/index.js")>>))
NestedDeclarator ==
    VariableDeclarator(Identifier("exports"),
        CallExpression(Identifier("require"),
            <<StringLiteral("/node_modules/meteor/pkg:demo/main.js")>>))
RequireDeclarator == VariableDeclarator(Identifier("require"), DemoInstaller)
DefineScope == Define(<<StringLiteral("pkg:demo"), Identifier("exports"), KeysBaz>>)
PackageClosure ==
    FunctionExpression(<<VariableDeclaration(<<RequireDeclarator>>),
                         VariableDeclaration(<<NestedDeclarator>>),
                         ExpressionStatement(DefineScope)>>)
ClosureNodes ==
    <<PackageClosure, RequireDeclarator, DemoInstaller, NestedDeclarator, DefineScope>>
BundlePrograms ==
    { ClosureNodes,
      <<TopDeclarator>> \o ClosureNodes,
      ClosureNodes \o <<TopDeclarator>>,
      <<FunctionExpression(<<VariableDeclaration(<<NestedDeclarator>>)>>), NestedDeclarator>> }

Programs == DriverPrograms \cup ModulePrograms \cup TreePrograms \cup BundlePrograms

(***************************************************************************)
(* State.                                                                  *)
(***************************************************************************)
VARIABLES
    fileContent, \* the fileContent option: absent, a string, or a deferred string
    file,       \* the text of the file at filePath
    program,    \* the nodes traverse() enters, in order (fixed by the text read)
    pos,        \* how many of them enter(node) has handled
    result,     \* parseSource's accumulator
    pc,         \* "load" | "traverse" | "rejected" | "done": where the call stands
    rejection,  \* the error parseSource's promise rejected with
    console,    \* what console.error / console.warn were given
    outcome     \* what parseMeteorPackage's caller receives

vars == <<fileContent, file, program, pos, result, pc, rejection, console, outcome>>

NoError == [class |-> "<none>"]
Pending == [kind |-> "pending"]

\* !value, for the strings the accumulator's name can hold.
Falsy(v) == v = "" \/ v = UndefinedValue

\* A text: its characters (only whether there are any matters to the code)
\* and the nodes parse() and traverse() make of it.
EmptyText == [source |-> "", nodes |-> <<>>]
CommentText == [source |-> "// built by Meteor", nodes |-> <<>>]
Code(nodes) == [source |-> "<code>", nodes |-> nodes]

\* The fileContent option.
NoContent == [kind |-> "undefined"]
StringContent(text) == [kind |-> "string", text |-> text]
PromiseContent(text) == [kind |-> "promise", text |-> text]

\* Texts handed over as content, and texts of the file when content is
\* handed over.
SuppliedTexts ==
    {EmptyText, CommentText} \cup {Code(<<n>>) : n \in DriverNodes}
FileTexts ==
    {EmptyText, Code(<<DemoInstaller>>), Code(<<Define(<<StringLiteral("meteor"), KeysBaz>>)>>)}

\* The calls: every program read from the file, and every supplied text in
\* both forms beside every file text.
Calls ==
    {[fileContent |-> NoContent, file |-> Code(p)] : p \in Programs}
    \cup {[fileContent |-> c, file |-> f] :
             c \in {StringContent(t) : t \in SuppliedTexts}
                     \cup {PromiseContent(t) : t \in SuppliedTexts},
             f \in FileTexts}

\* !fileContent: undefined and the empty string are falsy, a promise is not.
FalsyContent(content) ==
    \/ content.kind = "undefined"
    \/ content.kind = "string" /\ content.text.source = ""

\* await (fileContent || FS.readFile(filePath, 'utf-8'))
readContent(content, fileText) ==
    IF FalsyContent(content) THEN fileText ELSE content.text

\* parse(code) followed by traverse(): the nodes entered.
parse(text) == text.nodes

Init ==
    /\ \E call \in Calls :
          /\ fileContent = call.fileContent
          /\ file = call.file
    /\ program = <<>>
    /\ pos = 0
    /\ result = [name |-> "", modules |-> EmptyObject,
                 packageScopeExports |-> EmptyObject, mainModulePath |-> ""]
    /\ pc = "load"
    /\ rejection = NoError
    /\ console = <<>>
    /\ outcome = Pending

(***************************************************************************)
(* parseMeteorPackage up to the call of traverse(): the text is awaited    *)
(* and parsed.                                                             *)
(***************************************************************************)
Load ==
    /\ pc = "load"
    /\ program' = parse(readContent(fileContent, file))
    /\ pc' = "traverse"
    /\ UNCHANGED <<fileContent, file, pos, result, rejection, console, outcome>>

(***************************************************************************)
(* traverse(source, { enter(node) { ... } }): one visited node.  The       *)
(* three recognizers run in the code's order; the first to throw rejects   *)
(* parseSource's promise.                                                  *)
(***************************************************************************)
\* Variant of Merge in which an entry of packageScopeExports, once set, is
\* kept.
MergeKeepFirst(acc, packageScope, meteorInstall, mainModulePath) ==
    LET withPath ==
            IF mainModulePath.kind = "return" /\ mainModulePath.value # ""
            THEN [acc EXCEPT !.mainModulePath = mainModulePath.value]
            ELSE acc
        withInstall ==
            IF meteorInstall.kind = "return"
            THEN [withPath EXCEPT !.name = meteorInstall.value.name,
                                  !.modules = meteorInstall.value.modules]
            ELSE withPath
    IN  IF packageScope.kind = "return"
        THEN [withInstall EXCEPT
                 !.name = IF Falsy(withInstall.name)
                          THEN packageScope.value.name ELSE withInstall.name,
                 !.packageScopeExports =
                     withInstall.packageScopeExports
                         @@ (packageScope.value.name :> packageScope.value.exports)]
        ELSE withInstall

\* Variant of Merge that assigns mainModulePath from the recognizer alone,
\* without falling back to the value it had.
MergeForgetPath(acc, packageScope, meteorInstall, mainModulePath) ==
    LET withPath ==
            IF mainModulePath.kind = "return"
            THEN [acc EXCEPT !.mainModulePath = mainModulePath.value]
            ELSE [acc EXCEPT !.mainModulePath = UndefinedValue]
        withInstall ==
            IF meteorInstall.kind = "return"
            THEN [withPath EXCEPT !.name = meteorInstall.value.name,
                                  !.modules = meteorInstall.value.modules]
            ELSE withPath
    IN  IF packageScope.kind = "return"
        THEN [withInstall EXCEPT
                 !.name = IF Falsy(withInstall.name)
                          THEN packageScope.value.name ELSE withInstall.name,
                 !.packageScopeExports =
                     (packageScope.value.name :> packageScope.value.exports)
                         @@ withInstall.packageScopeExports]
        ELSE withInstall

\* Variant of Merge in which a _define call sets the name even when one is
\* already there.
MergeScopeNameAlways(acc, packageScope, meteorInstall, mainModulePath) ==
    LET withPath ==
            IF mainModulePath.kind = "return" /\ mainModulePath.value # ""
            THEN [acc EXCEPT !.mainModulePath = mainModulePath.value]
            ELSE acc
        withInstall ==
            IF meteorInstall.kind = "return"
            THEN [withPath EXCEPT !.name = meteorInstall.value.name,
                                  !.modules = meteorInstall.value.modules]
            ELSE withPath
    IN  IF packageScope.kind = "return"
        THEN [withInstall EXCEPT
                 !.name = packageScope.value.name,
                 !.packageScopeExports =
                     (packageScope.value.name :> packageScope.value.exports)
                         @@ withInstall.packageScopeExports]
        ELSE withInstall

\* The accumulator after enter(node), given what the recognizers returned.
Merge(acc, packageScope, meteorInstall, mainModulePath) ==
    LET withPath ==
            IF mainModulePath.kind = "return" /\ mainModulePath.value # ""
            THEN [acc EXCEPT !.mainModulePath = mainModulePath.value]
            ELSE acc
        withInstall ==
            IF meteorInstall.kind = "return"
            THEN [withPath EXCEPT !.name = meteorInstall.value.name,
                                  !.modules = meteorInstall.value.modules]
            ELSE withPath
    IN  IF packageScope.kind = "return"
        THEN [withInstall EXCEPT
                 !.name = IF Falsy(withInstall.name)
                          THEN packageScope.value.name ELSE withInstall.name,
                 !.packageScopeExports =
                     (packageScope.value.name :> packageScope.value.exports)
                         @@ withInstall.packageScopeExports]
        ELSE withInstall

Enter ==
    /\ pc = "traverse"
    /\ pos < Len(program)
    /\ LET node == program[pos + 1]
           packageScope == parsePackageScope(node)
           meteorInstall == parseMeteorInstall(node)
       IN  IF packageScope.kind = "throw"
           THEN /\ pc' = "rejected"
                /\ rejection' = packageScope.error
                /\ UNCHANGED <<pos, result>>
           ELSE IF meteorInstall.kind = "throw"
           THEN /\ pc' = "rejected"
                /\ rejection' = meteorInstall.error
                /\ UNCHANGED <<pos, result>>
           ELSE /\ result' = Merge(result, packageScope, meteorInstall,
                                   readMainModulePath(node))
                /\ pos' = pos + 1
                /\ UNCHANGED <<pc, rejection>>
    /\ UNCHANGED <<fileContent, file, program, console, outcome>>

(***************************************************************************)
(* .catch((error) => ...) of parseMeteorPackage.                           *)
(***************************************************************************)
\* Variant of the handler that rethrows every error unchanged.
CatchHandlerRethrow(error) == error

CatchHandler(error) ==
    IF error.class = "ModuleExportsError"
    THEN ParserError("Failed to parse source code. See previous error.")
    ELSE error

Catch ==
    /\ pc = "rejected"
    /\ console' = IF rejection.class = "ModuleExportsError"
                  THEN Append(console, [level |-> "error", value |-> rejection])
                  ELSE console
    /\ outcome' = Throw(CatchHandler(rejection))
    /\ pc' = "done"
    /\ UNCHANGED <<fileContent, file, program, pos, result, rejection>>

(***************************************************************************)
(* The promise resolved: parseMeteorPackage validates the result.          *)
(***************************************************************************)
\* Variant of the validation without the emptiness check.
ValidateNameOnly(parsed) ==
    IF Falsy(parsed.name)
    THEN Throw(ParserError("Could not extract name from package in: <filePath>"))
    ELSE Return(parsed)

\* Variant of the validation that checks emptiness before the name.
ValidateEmptyFirst(parsed) ==
    IF DOMAIN parsed.modules = {} /\ DOMAIN parsed.packageScopeExports = {}
    THEN Throw(ParserError(
             "No modules or package-scope exports could be extracted from package: "
                 \o parsed.name))
    ELSE IF Falsy(parsed.name)
    THEN Throw(ParserError("Could not extract name from package in: <filePath>"))
    ELSE Return(parsed)

Validate(parsed) ==
    IF Falsy(parsed.name)
    THEN Throw(ParserError("Could not extract name from package in: <filePath>"))
    ELSE IF DOMAIN parsed.modules = {} /\ DOMAIN parsed.packageScopeExports = {}
    THEN Throw(ParserError(
             "No modules or package-scope exports could be extracted from package: "
                 \o parsed.name))
    ELSE Return(parsed)

Finish ==
    /\ pc = "traverse"
    /\ pos = Len(program)
    /\ outcome' = Validate(result)
    /\ console' = IF ~Falsy(result.name) /\ outcome'.kind = "throw"
                  THEN Append(console,
                           [level |-> "warn",
                            message |-> "Unable to retrieve any metadata from the provided source code!",
                            result |-> result])
                  ELSE console
    /\ pc' = "done"
    /\ UNCHANGED <<fileContent, file, program, pos, result, rejection>>

Next == Load \/ Enter \/ Catch \/ Finish

Spec == Init /\ [][Next]_vars

(***************************************************************************)
(* What the claims speak of, read off the input tree (not computed by the  *)
(* parser's operators).                                                    *)
(***************************************************************************)
\* A call of the installer function.
IsInstallerCall(node) ==
    /\ node.type = "CallExpression"
    /\ node.callee.type = "Identifier"
    /\ node.callee.name = "meteorInstall"

\* A call Package._define(...).
IsDefineCall(node) ==
    /\ node.type = "CallExpression"
    /\ node.callee.type = "MemberExpression"
    /\ node.callee.object = Identifier("Package")
    /\ node.callee.property = Identifier("_define")

IsObjectWithOneProperty(node) ==
    /\ node.type = "ObjectExpression"
    /\ Len(node.properties) = 1
    /\ node.properties[1].type = "ObjectProperty"

\* The argument is {"node_modules": {"meteor": {"<name>": {...}}}} and
\* nothing else.
HasStandardPrefix(node) ==
    /\ Len(node.arguments) >= 1
    /\ IsObjectWithOneProperty(node.arguments[1])
    /\ LET l1 == node.arguments[1].properties[1] IN
       /\ l1.key \in {StringLiteral("node_modules"), Identifier("node_modules")}
       /\ IsObjectWithOneProperty(l1.value)
       /\ LET l2 == l1.value.properties[1] IN
          /\ l2.key \in {StringLiteral("meteor"), Identifier("meteor")}
          /\ IsObjectWithOneProperty(l2.value)
          /\ LET l3 == l2.value.properties[1] IN
             /\ l3.key.type \in {"StringLiteral", "Identifier"}
             /\ l3.value.type = "ObjectExpression"

\* The entries of the package object: the first property, three levels down.
PackageEntries(node) ==
    node.arguments[1].properties[1].value.properties[1].value.properties[1]
        .value.properties

\* The leaves of a directory in source order, each with the keys from the
\* package root down to it and the value stored there.
RECURSIVE LeavesOf(_, _)
LeavesOf(entries, above) ==
    IF Len(entries) = 0 THEN <<>>
    ELSE LET e == Head(entries)
             keys == Append(above, e.key.value)
         IN  (IF e.value.type = "ObjectExpression"
              THEN LeavesOf(e.value.properties, keys)
              ELSE <<[keys |-> keys, value |-> e.value]>>)
             \o LeavesOf(Tail(entries), above)

RECURSIVE JoinWithSlash(_)
JoinWithSlash(keys) ==
    IF Len(keys) = 1 THEN keys[1]
    ELSE keys[1] \o "/" \o JoinWithSlash(Tail(keys))

\* Every entry is a string-keyed ordinary property holding a directory or a
\* function.
RECURSIVE IsModuleTree(_)
IsModuleTree(entries) ==
    \A i \in 1..Len(entries) :
        /\ entries[i].type = "ObjectProperty"
        /\ entries[i].key.type = "StringLiteral"
        /\ \/ entries[i].value.type = "FunctionExpression"
           \/ /\ entries[i].value.type = "ObjectExpression"
              /\ IsModuleTree(entries[i].value.properties)

\* enter(node) has just handled an installer call in standard form whose
\* leaves are all functions; `result` is the accumulator after it.
InstalledTree ==
    /\ pos >= 1
    /\ IsInstallerCall(program[pos])
    /\ HasStandardPrefix(program[pos])
    /\ IsModuleTree(PackageEntries(program[pos]))

InstalledLeaves == LeavesOf(PackageEntries(program[pos]), <<>>)
LeafPathAt(i) == JoinWithSlash(InstalledLeaves[i].keys)

\* No two leaves of the installed tree have the same path.
PathsDistinct ==
    \A i, j \in 1..Len(InstalledLeaves) : LeafPathAt(i) = LeafPathAt(j) => i = j

\* Leaf i is the last leaf of the tree with its path.
IsLastWithPath(i) ==
    \A j \in 1..Len(InstalledLeaves) : LeafPathAt(j) = LeafPathAt(i) => j <= i

IsModuleCall(stmt, method) ==
    /\ stmt.type = "ExpressionStatement"
    /\ stmt.expression.type = "CallExpression"
    /\ stmt.expression.callee.type = "MemberExpression"
    /\ stmt.expression.callee.object.type = "Identifier"
    /\ MatchesModuleBinding(stmt.expression.callee.object.name)
    /\ stmt.expression.callee.property = Identifier(method)

\* !function () { ... }.<member>(...): the main-module wrapper.
IsWrapper(stmt) ==
    /\ stmt.type = "ExpressionStatement"
    /\ stmt.expression.type = "UnaryExpression"
    /\ stmt.expression.operator = "!"
    /\ stmt.expression.argument.type = "CallExpression"
    /\ stmt.expression.argument.callee.type = "MemberExpression"
    /\ stmt.expression.argument.callee.object.type = "FunctionExpression"

\* The statements of a body with every wrapper replaced by the statements
\* it wraps, in source order.
RECURSIVE Unwrapped(_)
Unwrapped(stmts) ==
    IF Len(stmts) = 0 THEN <<>>
    ELSE (IF IsWrapper(Head(stmts))
          THEN Unwrapped(Head(stmts).expression.argument.callee.object.body.body)
          ELSE <<Head(stmts)>>)
         \o Unwrapped(Tail(stmts))

\* The object literal of an export call / the bindings of a link call.
ExportObject(stmt) == stmt.expression.arguments[1]
LinkPath(stmt) == stmt.expression.arguments[1]
LinkBindings(stmt) == stmt.expression.arguments[2]
LinkId(stmt) == stmt.expression.arguments[3]

\* How many records a statement stands for.
EntryCount(stmt) ==
    IF IsModuleCall(stmt, "export") THEN Len(ExportObject(stmt).properties)
    ELSE IF IsModuleCall(stmt, "link") THEN Len(LinkBindings(stmt).properties)
    ELSE IF IsModuleCall(stmt, "exportDefault") THEN 1
    ELSE 0

\* The number of records of the statements before statement k.
RECURSIVE Offset(_, _)
Offset(stmts, k) ==
    IF k <= 1 THEN 0 ELSE Offset(stmts, k - 1) + EntryCount(stmts[k - 1])

\* The text of a property key: an identifier's name, a string literal's value.
KeyText(property) ==
    IF property.key.type = "Identifier" THEN property.key.name ELSE property.key.value

\* The exported names of a statement, and of a body, in source order.
EntryNames(stmt) ==
    IF IsModuleCall(stmt, "export")
    THEN [j \in 1..Len(ExportObject(stmt).properties) |->
             KeyText(ExportObject(stmt).properties[j])]
    ELSE IF IsModuleCall(stmt, "link")
    THEN [j \in 1..Len(LinkBindings(stmt).properties) |->
             KeyText(LinkBindings(stmt).properties[j])]
    ELSE IF IsModuleCall(stmt, "exportDefault")
    THEN <<stmt.expression.arguments[1].name>>
    ELSE <<>>

RECURSIVE SourceNames(_)
SourceNames(stmts) ==
    IF Len(stmts) = 0 THEN <<>>
    ELSE EntryNames(Head(stmts)) \o SourceNames(Tail(stmts))

\* The kind of call each record of a body comes from, in source order.
EntryCalls(stmt) ==
    [j \in 1..EntryCount(stmt) |-> stmt.expression.callee.property.name]

RECURSIVE SourceCalls(_)
SourceCalls(stmts) ==
    IF Len(stmts) = 0 THEN <<>>
    ELSE EntryCalls(Head(stmts)) \o SourceCalls(Tail(stmts))

RecordTypes(call) ==
    IF call = "export" THEN {"export"}
    ELSE IF call = "exportDefault" THEN {"export-default"}
    ELSE {"re-export", "global-binding"}

\* The statements of leaf i of the installed tree (wrappers unwrapped), and
\* the records extracted for its path.
LeafStatements(i) == Unwrapped(InstalledLeaves[i].value.body.body)
LeafRecords(i) == result.modules[LeafPathAt(i)]

\* The records of leaf i are those of its calls, one for one, in source order.
InSourceOrder(i) ==
    LET names == SourceNames(LeafStatements(i))
        calls == SourceCalls(LeafStatements(i))
        records == LeafRecords(i)
    IN  /\ Len(records) = Len(names)
        /\ \A k \in 1..Len(records) :
              /\ records[k].name = names[k]
              /\ records[k].type \in RecordTypes(calls[k])

C3_NamedExports ==
    /\ InstalledTree =>
          \A i \in 1..Len(InstalledLeaves) : IsLastWithPath(i) =>
              \A k \in 1..Len(LeafStatements(i)) :
                  IsModuleCall(LeafStatements(i)[k], "export") =>
                      LET properties == ExportObject(LeafStatements(i)[k]).properties
                          before == Offset(LeafStatements(i), k)
                      IN  /\ Len(LeafRecords(i)) >= before + Len(properties)
                          /\ \A j \in 1..Len(properties) :
                                LeafRecords(i)[before + j] =
                                    [type |-> "export", name |-> KeyText(properties[j])]
    /\ (pc = "done" /\ program = <<DemoInstaller>>) =>
          /\ outcome.kind = "return"
          /\ outcome.value.name = "pkg:demo"
          /\ outcome.value.modules = ("index.js" :> <<[type |-> "export", name |-> "Foo"]>>)
          /\ outcome.value.packageScopeExports = EmptyObject

\* The end-to-end example has been returned.
C3_Witness ==
    /\ pc = "done"
    /\ program = <<DemoInstaller>>
    /\ outcome.kind = "return"
    /\ DOMAIN outcome.value.modules = {"index.js"}

(***************************************************************************)
(* Link calls.                                                             *)
(***************************************************************************)
\* <module binding>.link("<path>", {...}, <number>)
IsLinkCall(stmt) ==
    /\ IsModuleCall(stmt, "link")
    /\ Len(stmt.expression.arguments) = 3
    /\ LinkPath(stmt).type = "StringLiteral"
    /\ LinkBindings(stmt).type = "ObjectExpression"
    /\ LinkId(stmt).type = "NumericLiteral"

\* key(v) { ... }, get key() { ... }, set key(v) { ... }
IsMethodForm(property) == property.type = "ObjectMethod"
\* key: function (v) { ... }  or  key: (v) => ...
IsFunctionValued(property) ==
    /\ property.type = "ObjectProperty"
    /\ property.value.type \in {"FunctionExpression", "ArrowFunctionExpression"}
\* key: "<string>"
IsStringValued(property) ==
    /\ property.type = "ObjectProperty"
    /\ property.value.type = "StringLiteral"
HasNameKey(property) ==
    /\ property.type \in {"ObjectProperty", "ObjectMethod"}
    /\ property.key.type \in {"Identifier", "StringLiteral"}

\* The text is one installer call in standard form with one leaf whose body
\* is one link call, every binding of which has a name key and is a method,
\* a function-valued property or a string-valued property.
OneLinkCall ==
    /\ Len(program) = 1
    /\ IsInstallerCall(program[1])
    /\ HasStandardPrefix(program[1])
    /\ IsModuleTree(PackageEntries(program[1]))
    /\ LET leaves == LeavesOf(PackageEntries(program[1]), <<>>) IN
       /\ Len(leaves) = 1
       /\ Len(leaves[1].value.body.body) = 1
       /\ LET stmt == leaves[1].value.body.body[1] IN
          /\ IsLinkCall(stmt)
          /\ \A j \in 1..Len(LinkBindings(stmt).properties) :
                LET property == LinkBindings(stmt).properties[j] IN
                /\ HasNameKey(property)
                /\ IsMethodForm(property) \/ IsFunctionValued(property)
                       \/ IsStringValued(property)

TheLinkCall == LeavesOf(PackageEntries(program[1]), <<>>)[1].value.body.body[1]
TheLinkRecords == outcome.value.modules[JoinWithSlash(
                      LeavesOf(PackageEntries(program[1]), <<>>)[1].keys)]

(***************************************************************************)
(* C4.  Original statement: in a link call every binding whose value is an *)
(* accessor / function form yields a global-binding record, and every      *)
(* binding whose value is a string literal yields a re-export record.  It  *)
(* fails for { Meteor: function (v) { ... } }: only an object method is    *)
(* taken for a global binding; a function stored as an ordinary property   *)
(* value is rejected ('Received unsupported result type in re-export!').   *)
(***************************************************************************)
C4_FunctionFormIsGlobalBinding ==
    (pc = "done" /\ OneLinkCall) =>
        /\ outcome.kind = "return"
        /\ \A j \in 1..Len(LinkBindings(TheLinkCall).properties) :
              LET property == LinkBindings(TheLinkCall).properties[j] IN
              /\ (IsMethodForm(property) \/ IsFunctionValued(property))
                     => TheLinkRecords[j].type = "global-binding"
              /\ IsStringValued(property) => TheLinkRecords[j].type = "re-export"

\* C4 as amended: in a link call every binding written as an object method
\* (with an identifier or string key) yields a global-binding record and
\* never a re-export, whatever its name; every binding property whose value
\* is a string literal yields a re-export and never a global-binding; a
\* binding property whose value is a function or arrow function yields no
\* record: the extraction fails.
C4_MethodIsGlobalBinding ==
    /\ InstalledTree =>
          \A i \in 1..Len(InstalledLeaves) : IsLastWithPath(i) =>
              \A k \in 1..Len(LeafStatements(i)) :
                  IsLinkCall(LeafStatements(i)[k]) =>
                      LET properties == LinkBindings(LeafStatements(i)[k]).properties
                          before == Offset(LeafStatements(i), k)
                      IN  \A j \in 1..Len(properties) :
                              /\ IsMethodForm(properties[j]) =>
                                     LeafRecords(i)[before + j].type = "global-binding"
                              /\ IsStringValued(properties[j]) =>
                                     LeafRecords(i)[before + j].type = "re-export"
                              /\ ~IsFunctionValued(properties[j])
    /\ (pc = "done" /\ OneLinkCall) =>
          IF \E j \in 1..Len(LinkBindings(TheLinkCall).properties) :
                 IsFunctionValued(LinkBindings(TheLinkCall).properties[j])
          THEN outcome.kind = "throw"
          ELSE outcome.kind = "return"

\* A returned link call that binds the same name Foo as a method and as a
\* string-valued property.
C4_Witness ==
    /\ pc = "done"
    /\ OneLinkCall
    /\ outcome.kind = "return"
    /\ LinkBindings(TheLinkCall).properties =
           <<ObjectMethod(Identifier("Foo")),
             ObjectProperty(Identifier("Foo"), StringLiteral("Foo"))>>
    /\ TheLinkRecords[1].type = "global-binding"
    /\ TheLinkRecords[2].type = "re-export"

(***************************************************************************)
(* C5.  Every string-valued binding of a link call yields a re-export      *)
(* record with name = the key, from = the call's path, id = the call's     *)
(* number, and `as` absent exactly when the string equals the key,         *)
(* otherwise equal to the string.                                          *)
(***************************************************************************)
C5_ReExportFields ==
    InstalledTree =>
        \A i \in 1..Len(InstalledLeaves) : IsLastWithPath(i) =>
            \A k \in 1..Len(LeafStatements(i)) :
                IsLinkCall(LeafStatements(i)[k]) =>
                    LET stmt == LeafStatements(i)[k]
                        properties == LinkBindings(stmt).properties
                        before == Offset(LeafStatements(i), k)
                    IN  \A j \in 1..Len(properties) :
                            IsStringValued(properties[j]) =>
                                LET record == LeafRecords(i)[before + j]
                                    key == KeyText(properties[j])
                                    string == properties[j].value.value
                                IN  /\ record.type = "re-export"
                                    /\ record.name = key
                                    /\ record.from = LinkPath(stmt).value
                                    /\ record.id = LinkId(stmt).value
                                    /\ ("as" \in DOMAIN record) <=> (string # key)
                                    /\ ("as" \in DOMAIN record) => record.as = string
                                    /\ DOMAIN record \subseteq
                                           {"type", "name", "from", "id", "as"}

\* One link call returned with an aliased and an unaliased re-export.
C5_Witness ==
    /\ outcome.kind = "return"
    /\ program = <<Installer("pkg:demo", <<Leaf("index.js", <<LinkReExport>>)>>)>>
    /\ outcome.value.modules["index.js"] =
           << [type |-> "re-export", name |-> "WhereAmI", id |-> 6,
               from |-> "./relative-module", as |-> "WhereIsTheSubmodule"],
              [type |-> "re-export", name |-> "NamedReExport", id |-> 6,
               from |-> "./relative-module"] >>

(***************************************************************************)
(* Package._define calls and the failures of the driver.                   *)
(***************************************************************************)
\* Package._define("<name>", {...}) with exactly two arguments, every
\* property of the object literal having a name key.
IsLegacyDefine(node) ==
    /\ IsDefineCall(node)
    /\ Len(node.arguments) = 2
    /\ node.arguments[1].type = "StringLiteral"
    /\ node.arguments[2].type = "ObjectExpression"
    /\ \A j \in 1..Len(node.arguments[2].properties) :
          HasNameKey(node.arguments[2].properties[j])

\* The property keys of an object literal, in order.
KeysOf(object) == [j \in 1..Len(object.properties) |-> KeyText(object.properties[j])]

\* No later _define call of the text names the package of call i.
IsLastDefineOfName(i) ==
    \A j \in (i + 1)..Len(program) :
        IsDefineCall(program[j]) =>
            \/ Len(program[j].arguments) = 0
            \/ program[j].arguments[1] # program[i].arguments[1]

(***************************************************************************)
(* C6.  A _define call with exactly two arguments, the second an object    *)
(* literal, sets packageScopeExports[name] to the ordered keys of that     *)
(* object literal and leaves modules unchanged; the returned result holds  *)
(* that list unless a later _define call names the same package.           *)
(***************************************************************************)
C6_LegacyDefine ==
    /\ [][ (pc = "traverse" /\ pos < Len(program) /\ IsLegacyDefine(program[pos + 1])) =>
              /\ pc' = "traverse"
              /\ pos' = pos + 1
              /\ program[pos + 1].arguments[1].value \in DOMAIN result'.packageScopeExports
              /\ result'.packageScopeExports[program[pos + 1].arguments[1].value]
                     = KeysOf(program[pos + 1].arguments[2])
              /\ result'.modules = result.modules
              /\ \A name \in DOMAIN result.packageScopeExports :
                    name # program[pos + 1].arguments[1].value =>
                        result'.packageScopeExports[name] = result.packageScopeExports[name]
         ]_vars
    /\ [](outcome.kind = "return" =>
             \A i \in 1..Len(program) :
                 (IsLegacyDefine(program[i]) /\ IsLastDefineOfName(i)) =>
                     /\ program[i].arguments[1].value
                            \in DOMAIN outcome.value.packageScopeExports
                     /\ outcome.value.packageScopeExports[program[i].arguments[1].value]
                            = KeysOf(program[i].arguments[2]))

\* A two-argument _define call handled after an installer call: its keys
\* are recorded and the installer's modules are still there.
C6_Witness ==
    /\ pos = 2
    /\ outcome.kind = "return"
    /\ program[1] = DemoInstaller
    /\ program[2] = Define(<<StringLiteral("pkg:demo"), KeysFooBar>>)
    /\ outcome.value.packageScopeExports = ("pkg:demo" :> <<"Foo", "Bar">>)
    /\ DOMAIN outcome.value.modules = {"index.js"}

(***************************************************************************)
(* C7.  A returned result has a non-empty name and modules or              *)
(* packageScopeExports non-empty; a text on which a recognizer raised      *)
(* yields a failure and no result, and a result is returned only after     *)
(* every node was handled.                                                 *)
(***************************************************************************)
C7_ReturnedIsComplete ==
    /\ outcome.kind = "return" =>
          /\ outcome.value.name \notin {"", UndefinedValue}
          /\ DOMAIN outcome.value.modules # {}
                 \/ DOMAIN outcome.value.packageScopeExports # {}
          /\ outcome.value = result
          /\ rejection = NoError
          /\ pos = Len(program)
    /\ (pc = "done" /\ rejection # NoError) => outcome.kind = "throw"
    /\ pc = "done" => outcome.kind \in {"return", "throw"}

\* A returned result with no modules, only package-scope exports.
C7_Witness ==
    /\ outcome.kind = "return"
    /\ DOMAIN outcome.value.modules = {}
    /\ DOMAIN outcome.value.packageScopeExports = {"meteor"}
    /\ outcome.value.name = "meteor"

(***************************************************************************)
(* C8.  Original statement: a text with neither an installer call nor a    *)
(* _define call fails with the Empty-Result Defect ('No modules or         *)
(* package-scope exports could be extracted').  It fails: no name was      *)
(* extracted either, and the name is checked first.                        *)
(***************************************************************************)
NoRecognizedCall ==
    \A i \in 1..Len(program) : ~IsInstallerCall(program[i]) /\ ~IsDefineCall(program[i])

EmptyResultPrefix == "No modules or package-scope exports could be extracted from package: "

IsEmptyResultDefect(o) ==
    /\ o.kind = "throw"
    /\ o.error.class = "ParserError"
    /\ Len(o.error.message) >= Len(EmptyResultPrefix)
    /\ SubSeq(o.error.message, 1, Len(EmptyResultPrefix)) = EmptyResultPrefix

IsMissingNameDefect(o) ==
    /\ o.kind = "throw"
    /\ o.error.class = "ParserError"
    /\ o.error.message = "Could not extract name from package in: <filePath>"

C8_NothingIsEmptyResult ==
    (pc = "done" /\ NoRecognizedCall) => IsEmptyResultDefect(outcome)

\* C8 as amended: a text with neither an installer call nor a _define call
\* fails with the Missing-Name Defect ('Could not extract name from
\* package'), not with any other failure; the Empty-Result Defect is raised
\* only when a name was extracted and modules and packageScopeExports are
\* both empty.
C8_NothingIsMissingName ==
    /\ (pc = "done" /\ NoRecognizedCall) => IsMissingNameDefect(outcome)
    /\ IsEmptyResultDefect(outcome) =>
          /\ ~NoRecognizedCall
          /\ result.name \notin {"", UndefinedValue}
          /\ DOMAIN result.modules = {}
          /\ DOMAIN result.packageScopeExports = {}

\* A text of two nodes, one of them the main-module declaration, neither an
\* installer nor a _define call, has failed.
C8_Witness ==
    /\ pc = "done"
    /\ NoRecognizedCall
    /\ Len(program) = 2
    /\ result.mainModulePath = "/node_modules/meteor/pkg:demo/index.js"
    /\ outcome.kind = "throw"

(***************************************************************************)
(* C9.  Original statement: a _define(name, x, y) call whose third         *)
(* argument is not an object literal makes the extraction fail, and the    *)
(* caller receives a Structural-Shape Violation carrying that argument.    *)
(* It fails: the handler logs that error and throws a plain ParserError    *)
(* ('Failed to parse source code. See previous error.') without a node.    *)
(***************************************************************************)
IsBadScopeDefine(node) ==
    /\ IsDefineCall(node)
    /\ Len(node.arguments) = 3
    /\ node.arguments[3].type # "ObjectExpression"

\* The call ended on the node after the last one handled, a bad _define.
FailedOnBadScopeDefine ==
    /\ pc = "done"
    /\ pos < Len(program)
    /\ IsBadScopeDefine(program[pos + 1])

RECURSIVE LeavesAreObjectsOrFunctions(_)
LeavesAreObjectsOrFunctions(entries) ==
    \A i \in 1..Len(entries) :
        /\ "value" \in DOMAIN entries[i]
        /\ \/ entries[i].value.type \in {"FunctionExpression", "ArrowFunctionExpression"}
           \/ /\ entries[i].value.type = "ObjectExpression"
              /\ LeavesAreObjectsOrFunctions(entries[i].value.properties)

Deviates(node) ==
    /\ IsInstallerCall(node)
    /\ \/ ~HasStandardPrefix(node)
       \/ ~LeavesAreObjectsOrFunctions(PackageEntries(node))

C10_DeviationFails ==
    /\ \A i \in 1..pos : ~Deviates(program[i])
    /\ outcome.kind = "return" => \A i \in 1..Len(program) : ~Deviates(program[i])

(***************************************************************************)
(* Texts of one installer call in standard form with one leaf whose body   *)
(* is one statement.                                                       *)
(***************************************************************************)
OneStatement ==
    /\ Len(program) = 1
    /\ IsInstallerCall(program[1])
    /\ HasStandardPrefix(program[1])
    /\ IsModuleTree(PackageEntries(program[1]))
    /\ LET leaves == LeavesOf(PackageEntries(program[1]), <<>>) IN
       /\ Len(leaves) = 1
       /\ Len(leaves[1].value.body.body) = 1

TheStatement == LeavesOf(PackageEntries(program[1]), <<>>)[1].value.body.body[1]

\* A property no export or link call may hold: a spread, a computed key, or
\* a key that is neither an identifier nor a string literal.
IsBadProperty(property) ==
    \/ property.type = "SpreadElement"
    \/ "computed" \in DOMAIN property
    \/ property.key.type \notin {"Identifier", "StringLiteral"}

\* A link binding whose value is neither a method / function form nor a
\* string literal.
IsBadBinding(property) ==
    \/ IsBadProperty(property)
    \/ /\ property.type = "ObjectProperty"
       /\ property.value.type \notin
              {"StringLiteral", "FunctionExpression", "ArrowFunctionExpression"}

\* A call with the outer pattern of .export / .exportDefault / .link on a
\* module binding, an inner piece of which is missing or of the wrong shape.
IsMalformedCall(stmt) ==
    LET args == stmt.expression.arguments IN
    \/ /\ IsModuleCall(stmt, "export")
       /\ \/ Len(args) = 0
          \/ args[1].type # "ObjectExpression"
          \/ \E j \in 1..Len(args[1].properties) : IsBadProperty(args[1].properties[j])
    \/ /\ IsModuleCall(stmt, "exportDefault")
       /\ \/ Len(args) = 0
          \/ args[1].type # "Identifier"
    \/ /\ IsModuleCall(stmt, "link")
       /\ \/ Len(args) < 3
          \/ args[1].type # "StringLiteral"
          \/ args[2].type # "ObjectExpression"
          \/ args[3].type # "NumericLiteral"
          \/ \E j \in 1..Len(args[2].properties) : IsBadBinding(args[2].properties[j])

(***************************************************************************)
(* C11.  A statement with the outer pattern of an .export, .exportDefault  *)
(* or .link call on a module binding, an inner piece of which has the      *)
(* wrong shape or is missing, makes parseSource reject with a              *)
(* ModuleExportsError that carries a node of the tree; the statement is    *)
(* never read as an export and no other kind of error is raised.           *)
(***************************************************************************)
C11_MalformedCallAborts ==
    (pc = "done" /\ OneStatement /\ IsMalformedCall(TheStatement)) =>
        /\ rejection.class = "ModuleExportsError"
        /\ rejection.node # ExportsBinding

(***************************************************************************)
(* C12.  When content is supplied (as a string or as a deferred string,    *)
(* the empty text included), the text parsed is that content and never     *)
(* the file's, so the outcome is the one of reading that text from the     *)
(* file; for the empty text that outcome is the Missing-Name failure.      *)
(***************************************************************************)
IsSupplied == fileContent.kind \in {"string", "promise"}

C12_SuppliedContentDecides ==
    /\ (pc # "load" /\ IsSupplied) => program = parse(fileContent.text)
    /\ (pc = "done" /\ IsSupplied /\ fileContent.text = EmptyText) =>
           IsMissingNameDefect(outcome)

(***************************************************************************)
(* _define calls that yield package-scope exports.                         *)
(***************************************************************************)
\* The object literal a _define call takes its export keys from.
ScopeObject(node) ==
    IF Len(node.arguments) >= 3 THEN node.arguments[3] ELSE node.arguments[2]

\* Package._define("<name>", ..., {...}): a call the recognizer returns a
\* name and a key list for.
YieldsScope(node) ==
    /\ IsDefineCall(node)
    /\ Len(node.arguments) >= 2
    /\ node.arguments[1].type = "StringLiteral"
    /\ ScopeObject(node).type = "ObjectExpression"
    /\ \A j \in 1..Len(ScopeObject(node).properties) :
          HasNameKey(ScopeObject(node).properties[j])

DefineName(node) == node.arguments[1].value

\* Call i is the last of the first n nodes to yield exports for its name.
IsLastYieldFor(i, n) ==
    /\ YieldsScope(program[i])
    /\ \A j \in (i + 1)..n :
          YieldsScope(program[j]) => DefineName(program[j]) # DefineName(program[i])

(***************************************************************************)
(* C13.  packageScopeExports[name] is the key list of the last visited     *)
(* _define call for that name alone: an earlier list is overwritten, not   *)
(* merged or appended to, the entries of other names are left unchanged,   *)
(* and the returned result holds the same map.                             *)
(***************************************************************************)
C13_LastDefineWins ==
    /\ \A i \in 1..pos :
          IsLastYieldFor(i, pos) =>
              /\ DefineName(program[i]) \in DOMAIN result.packageScopeExports
              /\ result.packageScopeExports[DefineName(program[i])]
                     = KeysOf(ScopeObject(program[i]))
    /\ \A name \in DOMAIN result.packageScopeExports :
          \E i \in 1..pos : IsLastYieldFor(i, pos) /\ DefineName(program[i]) = name
    /\ outcome.kind = "return" =>
          outcome.value.packageScopeExports = result.packageScopeExports

\* Two _define calls for one name with different keys, and the result
\* returned.
C13_Witness ==
    /\ outcome.kind = "return"
    /\ pos = 2
    /\ YieldsScope(program[1])
    /\ YieldsScope(program[2])
    /\ DefineName(program[1]) = DefineName(program[2])
    /\ KeysOf(ScopeObject(program[1])) = <<"Foo", "Bar">>
    /\ outcome.value.packageScopeExports = ("pkg:demo" :> <<"Baz">>)

(***************************************************************************)
(* The main-module declaration.                                            *)
(***************************************************************************)
\* <id> = require("<string literal>") with id the identifier `exports`.
IsExportsRequire(node) ==
    /\ node.type = "VariableDeclarator"
    /\ node.id = Identifier("exports")
    /\ node.init.type = "CallExpression"
    /\ node.init.callee = Identifier("require")
    /\ Len(node.init.arguments) >= 1
    /\ node.init.arguments[1].type = "StringLiteral"

RequiredPath(node) == node.init.arguments[1].value

\* Node i is declared inside a function entered before it.
IsNested(i) ==
    \E j \in 1..(i - 1) :
        /\ program[j].type = "FunctionExpression"
        /\ \E k \in 1..Len(program[j].body.body) :
              /\ program[j].body.body[k].type = "VariableDeclaration"
              /\ \E d \in 1..Len(program[j].body.body[k].declarations) :
                    program[j].body.body[k].declarations[d] = program[i]

IsTopLevelDeclaration(i) == IsExportsRequire(program[i]) /\ ~IsNested(i)

\* Node i declares the main module by a non-empty path, at any depth.
IsMainModuleDeclaration(i) ==
    IsExportsRequire(program[i]) /\ RequiredPath(program[i]) # ""

(***************************************************************************)
(* C14.  Original statement: after traversal mainModulePath is the string  *)
(* literal of the last visited top-level declaration                       *)
(* `exports = require("<string>")`, and is empty when there is none.  It   *)
(* fails: the declaration of a real bundle sits inside the package         *)
(* closure and is matched all the same, and an empty literal changes       *)
(* nothing.                                                                *)
(***************************************************************************)
C14_LastTopLevelDeclaration ==
    (pc = "traverse" /\ pos = Len(program)) =>
        /\ \A i \in 1..pos :
              (/\ IsTopLevelDeclaration(i)
               /\ \A j \in (i + 1)..pos : ~IsTopLevelDeclaration(j))
                  => result.mainModulePath = RequiredPath(program[i])
        /\ (\A i \in 1..pos : ~IsTopLevelDeclaration(i)) => result.mainModulePath = ""

\* C14 as amended: at every point of the traversal mainModulePath is the
\* string literal of the last visited variable declarator, at any depth of
\* the text, that binds the identifier `exports` to require("<non-empty
\* string literal>"); it is empty when no such declarator was visited, and
\* no other node (an installer call, a _define call, a declarator with an
\* empty literal) changes it.
C14_LastDeclarationAnyDepth ==
    /\ \A i \in 1..pos :
          (/\ IsMainModuleDeclaration(i)
           /\ \A j \in (i + 1)..pos : ~IsMainModuleDeclaration(j))
              => result.mainModulePath = RequiredPath(program[i])
    /\ (\A i \in 1..pos : ~IsMainModuleDeclaration(i)) => result.mainModulePath = ""
    /\ outcome.kind = "return" => outcome.value.mainModulePath = result.mainModulePath

\* A bundle whose declaration sits inside the package closure, after a
\* top-level one: the nested one is the last and its path is returned.
C14_Witness ==
    /\ outcome.kind = "return"
    /\ IsTopLevelDeclaration(1)
    /\ \E i \in 2..pos : IsExportsRequire(program[i]) /\ IsNested(i)
    /\ outcome.value.mainModulePath = "/node_modules/meteor/pkg:demo/main.js"

(***************************************************************************)
(* C15.  For every visited node at most one of parseMeteorInstall,         *)
(* parsePackageScope and readMainModulePath returns a result, and          *)
(* enter(node) changes only the fields of the accumulator that belong to   *)
(* that one recognizer: name and modules for an installer call, name and   *)
(* packageScopeExports for a _define call, mainModulePath for a            *)
(* declarator, nothing for any other node.                                 *)
(***************************************************************************)
Returning(node) ==
    {r \in {"install", "scope", "path"} :
        (CASE r = "install" -> parseMeteorInstall(node)
           [] r = "scope" -> parsePackageScope(node)
           [] r = "path" -> readMainModulePath(node)).kind = "return"}

C15_AtMostOneRecognizer ==
    /\ [](\A i \in 1..Len(program) : Cardinality(Returning(program[i])) <= 1)
    /\ [][ (pc = "traverse" /\ pos' = pos + 1) =>
              LET node == program[pos + 1] IN
              \/ /\ Returning(node) = {"install"}
                 /\ result'.packageScopeExports = result.packageScopeExports
                 /\ result'.mainModulePath = result.mainModulePath
              \/ /\ Returning(node) = {"scope"}
                 /\ result'.modules = result.modules
                 /\ result'.mainModulePath = result.mainModulePath
              \/ /\ Returning(node) = {"path"}
                 /\ result'.name = result.name
                 /\ result'.modules = result.modules
                 /\ result'.packageScopeExports = result.packageScopeExports
              \/ /\ Returning(node) = {}
                 /\ result' = result
         ]_vars

\* Each of the three recognizers has returned for some node of one text.
C15_Witness ==
    /\ outcome.kind = "return"
    /\ \A r \in {"install", "scope", "path"} :
          \E i \in 1..pos : Returning(program[i]) = {r}
    /\ DOMAIN result.modules # {}
    /\ DOMAIN result.packageScopeExports # {}
    /\ result.mainModulePath # ""

(***************************************************************************)
(* The main-module wrapper.                                                *)
(***************************************************************************)
\* !function () { ... }(...): a negated function expression called
\* directly.
IsDirectIIFE(stmt) ==
    /\ stmt.type = "ExpressionStatement"
    /\ stmt.expression.type = "UnaryExpression"
    /\ stmt.expression.operator = "!"
    /\ stmt.expression.argument.type = "CallExpression"
    /\ stmt.expression.argument.callee.type = "FunctionExpression"

\* A negated, immediately-invoked function expression: called directly, or
\* through a member such as .call(this, module).
IsNegatedIIFE(stmt) == IsDirectIIFE(stmt) \/ IsWrapper(stmt)

WrappedBody(stmt) ==
    IF IsDirectIIFE(stmt)
    THEN stmt.expression.argument.callee.body.body
    ELSE stmt.expression.argument.callee.object.body.body

\* The records the export-statement recognizer produces for each statement
\* of a body, concatenated in source order.
RECURSIVE ConcatenatedRecords(_)
ConcatenatedRecords(stmts) ==
    IF Len(stmts) = 0 THEN <<>>
    ELSE LET exports == readModuleExports(Head(stmts)) IN
         (IF exports.kind = "return" THEN exports.value ELSE <<>>)
             \o ConcatenatedRecords(Tail(stmts))

\* The recognizer raises for no statement of the body.
NoneRaises(stmts) ==
    \A k \in 1..Len(stmts) : readModuleExports(stmts[k]).kind # "throw"

TheLeafPath == JoinWithSlash(LeavesOf(PackageEntries(program[1]), <<>>)[1].keys)

(***************************************************************************)
(* C16.  Original statement: a statement that is a negated,                *)
(* immediately-invoked function expression yields the records of the       *)
(* statements of the wrapped body, concatenated in source order, under     *)
(* the path of the enclosing leaf.  It fails for !function () {...}():     *)
(* only a function expression invoked through a member is unwrapped.       *)
(***************************************************************************)
C16_NegatedIIFEUnwrapped ==
    (/\ pos = 1
     /\ OneStatement
     /\ IsNegatedIIFE(TheStatement)
     /\ NoneRaises(WrappedBody(TheStatement))) =>
        /\ DOMAIN result.modules = {TheLeafPath}
        /\ result.modules[TheLeafPath] = ConcatenatedRecords(WrappedBody(TheStatement))

\* C16 as amended: a statement that is a negated function expression
\* invoked through a member call (`!function () {...}.call(this, module)`)
\* yields exactly the concatenation, in source order, of the records the
\* export-statement recognizer produces for each statement of the wrapped
\* body (recursively for nested wrappers), under the path of the enclosing
\* leaf, and the extraction is rejected when the recognizer raises for one
\* of them.  A negated function expression called directly
\* (`!function () {...}()`) is not unwrapped: it contributes no record.
C16_MemberCallUnwrapped ==
    /\ (pos = 1 /\ OneStatement /\ IsWrapper(TheStatement)) =>
          /\ NoneRaises(WrappedBody(TheStatement))
          /\ DOMAIN result.modules = {TheLeafPath}
          /\ result.modules[TheLeafPath] = ConcatenatedRecords(WrappedBody(TheStatement))
    /\ (pc = "done" /\ OneStatement /\ IsWrapper(TheStatement)
            /\ ~NoneRaises(WrappedBody(TheStatement))) => rejection # NoError
    /\ (pos = 1 /\ OneStatement /\ IsDirectIIFE(TheStatement)) =>
          /\ DOMAIN result.modules = {TheLeafPath}
          /\ result.modules[TheLeafPath] = <<>>

\* A wrapper holding a wrapper and an exportDefault call: three records
\* under the leaf's path, in source order.
C16_Witness ==
    /\ outcome.kind = "return"
    /\ OneStatement
    /\ IsWrapper(TheStatement)
    /\ Len(WrappedBody(TheStatement)) = 2
    /\ IsWrapper(WrappedBody(TheStatement)[1])
    /\ TheLeafPath \in DOMAIN outcome.value.modules
    /\ Len(outcome.value.modules[TheLeafPath]) = 3
    /\ outcome.value.modules[TheLeafPath][3] = [type |-> "export-default", name |-> "namedFunction"]

(***************************************************************************)
(* Statements of no recognized shape.                                      *)
(***************************************************************************)
\* The package key of the installer call, and its name.
PackageKey ==
    program[1].arguments[1].properties[1].value.properties[1].value.properties[1].key
PackageEntriesName == PackageKey.value

\* The text is one installer call in standard form, the package name a
\* string literal, with one leaf.
OneLeaf ==
    /\ Len(program) = 1
    /\ IsInstallerCall(program[1])
    /\ HasStandardPrefix(program[1])
    /\ PackageKey.type = "StringLiteral"
    /\ IsModuleTree(PackageEntries(program[1]))
    /\ Len(LeavesOf(PackageEntries(program[1]), <<>>)) = 1

TheBody == LeavesOf(PackageEntries(program[1]), <<>>)[1].value.body.body

\* An export / exportDefault / link call on a module binding, or the
\* main-module wrapper.
IsRecognizedShape(stmt) ==
    \/ IsModuleCall(stmt, "export")
    \/ IsModuleCall(stmt, "exportDefault")
    \/ IsModuleCall(stmt, "link")
    \/ IsWrapper(stmt)

\* The body without its statements of no recognized shape.
WithoutUnrecognized(stmts) == SelectSeq(stmts, IsRecognizedShape)

(***************************************************************************)
(* C17.  A statement of a module body that is none of the recognized       *)
(* shapes contributes no record and raises no failure: the extraction      *)
(* ends as it would on the body without such statements, with the same     *)
(* record list for the module and the same name, packageScopeExports and   *)
(* mainModulePath.                                                         *)
(***************************************************************************)
C17_UnrecognizedSkipped ==
    (pc = "done" /\ OneLeaf) =>
        LET without == collectExports(WithoutUnrecognized(TheBody), 1) IN
        IF without.kind = "return"
        THEN /\ rejection = NoError
             /\ outcome.kind = "return"
             /\ DOMAIN outcome.value.modules = {TheLeafPath}
             /\ outcome.value.modules[TheLeafPath] = without.value
             /\ outcome.value.name = PackageEntriesName
             /\ outcome.value.packageScopeExports = EmptyObject
             /\ outcome.value.mainModulePath = ""
        ELSE rejection = without.error

\* A body of a plumbing statement followed by an export call: one record.
C17_Witness ==
    /\ outcome.kind = "return"
    /\ OneLeaf
    /\ Len(TheBody) = 2
    /\ ~IsRecognizedShape(TheBody[1])
    /\ IsModuleCall(TheBody[2], "export")
    /\ Len(outcome.value.modules[TheLeafPath]) = 1

(***************************************************************************)
(* Where the name and the modules of the accumulator come from.            *)
(***************************************************************************)
\* Node i is the last installer call among the first n nodes.
IsLastInstaller(i, n) ==
    /\ i \in 1..n
    /\ IsInstallerCall(program[i])
    /\ \A j \in (i + 1)..n : ~IsInstallerCall(program[j])

NoInstaller(n) == \A i \in 1..n : ~IsInstallerCall(program[i])

\* The name and the modules of one installer call.
InstallerName(node) == parseMeteorInstall(node).value.name
InstallerModules(node) == parseMeteorInstall(node).value.modules

\* Node i is the first _define call after node `from`, among the first n
\* nodes, that yields package-scope exports under a non-empty name.
IsFirstNamingDefine(i, from, n) ==
    /\ i \in (from + 1)..n
    /\ YieldsScope(program[i])
    /\ ~Falsy(DefineName(program[i]))
    /\ \A j \in (from + 1)..(i - 1) :
          ~(YieldsScope(program[j]) /\ ~Falsy(DefineName(program[j])))

NoNamingDefine(from, n) ==
    \A j \in (from + 1)..n : ~(YieldsScope(program[j]) /\ ~Falsy(DefineName(program[j])))

====
